---- MODULE Spec2Model ----
(***************************************************************************)
(* Model of snap.py: the snapshot usage report of a Qumulo cluster.        *)
(*                                                                         *)
(* Strings whose inner structure matters are sequences of tokens:          *)
(*   an expiration "2024-12-31T00:00:00Z" is <<"2024-12-31","T","00:..">>, *)
(*   the empty string is <<>>, ", ".join(xs) is JoinComma(xs).             *)
(* Byte counts handed to format_bytes are little-endian sequences of       *)
(* base-1024 digits, so that values up to 2^70 and the 53-bit precision of *)
(* Python's float division are represented exactly.                        *)
(***************************************************************************)
EXTENDS Integers, Sequences, FiniteSets, TLC

VARIABLES
    pc,         \* position of main(); "crashed_x": an exception left step x
    args,       \* parsed command line: action, filename
    fs,         \* the cluster's answer to get_file_attr, per path identifier,
                \* "unasked" until the run first resolves the identifier
    snapshots,  \* Snapshot.snapshots, the inventory
    grp,        \* index of main's loop over ["policy_id", "source_file_id"]
    grouped,    \* main's grouped_snaps
    results,    \* Snapshot.results, an insertion-ordered dict
    file,       \* lines of the file named by --filename
    console,    \* lines printed by _display_report
    reports,    \* the reports generated so far: usage and rows of each
    calls,      \* capacity requests sent to the cluster so far, with outcomes
    errors,     \* messages logged at error level
    fmt_in,     \* argument of a stand-alone format_bytes call
    fmt_out     \* its result

vars == <<pc, args, fs, snapshots, grp, grouped, results, file, console, reports,
          calls, errors, fmt_in, fmt_out>>

(***************************************************************************)
(* Bounds                                                                  *)
(***************************************************************************)
\* snapshots in the inventory
MaxSnaps == 2

\* capacity requests that fail in one run
MaxFaults == 1

\* base-1024 digits of an argument of format_bytes
NDigits == 7

(***************************************************************************)
(* format_bytes (snap.py 214-222)                                          *)
(***************************************************************************)
Units == <<"B", "KiB", "MiB", "GiB", "TiB", "PiB", "EiB">>

Base == 1024

MantissaBits == 53

RECURSIVE Pow2(_)
Pow2(k) == IF k = 0 THEN 1 ELSE 2 * Pow2(k - 1)

RECURSIVE BitLen(_)
BitLen(d) == IF d = 0 THEN 0 ELSE 1 + BitLen(d \div 2)

\* Index of the most significant non-zero digit, 0 for the value zero.
TopDigit(ds) ==
    IF \A j \in 1..Len(ds) : ds[j] = 0 THEN 0
    ELSE CHOOSE t \in 1..Len(ds) :
            ds[t] # 0 /\ \A j \in (t + 1)..Len(ds) : ds[j] = 0

BitLength(ds) ==
    IF TopDigit(ds) = 0 THEN 0
    ELSE 10 * (TopDigit(ds) - 1) + BitLen(ds[TopDigit(ds)])

\* Adds a carry into the digits from position j upwards; the last digit
\* absorbs the final carry.
RECURSIVE AddCarry(_, _, _)
AddCarry(ds, j, c) ==
    IF c = 0 \/ j > Len(ds) THEN ds
    ELSE IF j = Len(ds) THEN [ds EXCEPT ![j] = ds[j] + c]
    ELSE AddCarry([ds EXCEPT ![j] = (ds[j] + c) % Base], j + 1,
                  (ds[j] + c) \div Base)

\* int -> float: the nearest value with a 53-bit mantissa, ties to even.
\* (int / 1024 in Python is the correctly rounded quotient; dividing by a
\* power of two is exact, so all rounding happens here.)
ToFloat(ds) ==
    LET k    == BitLength(ds) - MantissaBits
        low2 == ds[1] + Base * ds[2] + Base * Base * ds[3]
        low  == low2 % Pow2(k)
        half == Pow2(k - 1)
        odd  == (low2 \div Pow2(k)) % 2 = 1
        up   == low > half \/ (low = half /\ odd)
        v    == low2 - low + (IF up THEN Pow2(k) ELSE 0)
        cut  == [ds EXCEPT ![1] = v % Base,
                           ![2] = (v \div Base) % Base,
                           ![3] = (v \div (Base * Base)) % Base]
    IN  IF k <= 0 THEN ds ELSE AddCarry(cut, 4, v \div (Base * Base * Base))

\* size_in_bytes > 1024 in place of >=
AtLeast1024_gt(ds, index) ==
    \/ \E j \in (index + 3)..Len(ds) : ds[j] # 0
    \/ /\ index + 2 <= Len(ds)
       /\ \/ ds[index + 2] > 1
          \/ ds[index + 2] = 1 /\ \E j \in 1..(index + 1) : ds[j] # 0

\* size_in_bytes >= 1024, for the value ds / 1024^index
AtLeast1024(ds, index) == \E j \in (index + 2)..Len(ds) : ds[j] # 0

\* while size_in_bytes >= 1024 and index < len(units) - 1: ... index += 1
RECURSIVE UnitLoop(_, _)
UnitLoop(ds, index) ==
    IF AtLeast1024(ds, index) /\ index < Len(Units) - 1
    THEN UnitLoop(ds, index + 1)
    ELSE index

\* 10 * (fraction of ds / 1024^index), as <<carry out, remainder digits>>
RECURSIVE Mul10(_, _, _, _)
Mul10(ds, j, index, c) ==
    IF j > index THEN <<c, ds>>
    ELSE Mul10([ds EXCEPT ![j] = (10 * ds[j] + c) % Base], j + 1, index,
               (10 * ds[j] + c) \div Base)

\* The remainder digits 1..index compared with one half: -1, 0, 1
CmpHalf(es, index) ==
    IF index = 0 THEN -1
    ELSE IF es[index] > Base \div 2 THEN 1
    ELSE IF es[index] < Base \div 2 THEN -1
    ELSE IF \E j \in 1..(index - 1) : es[j] # 0 THEN 1 ELSE 0

\* Integer part of ds / 1024^index once the loop has ended
IntPart(ds, index) ==
    IF index + 2 <= Len(ds) THEN ds[index + 1] + Base * ds[index + 2]
    ELSE ds[index + 1]

\* f"{x:.1f}": the value in tenths, rounded half to even
Tenths(ds, index) ==
    LET m   == Mul10(ds, 1, index, 0)
        t   == 10 * IntPart(ds, index) + m[1]
        cmp == CmpHalf(m[2], index)
    IN  IF cmp = 1 \/ (cmp = 0 /\ t % 2 = 1) THEN t + 1 ELSE t

\* The unit index and the value in tenths that format_bytes renders
FmtValue(ds) ==
    LET f     == IF AtLeast1024(ds, 0) THEN ToFloat(ds) ELSE ds
        index == UnitLoop(f, 0)
    IN  [index |-> index, tenths |-> Tenths(f, index)]

\* f"{size_in_bytes:.1f}{units[index]}"
format_bytes(ds) ==
    LET v == FmtValue(ds)
    IN  <<ToString(v.tenths \div 10), ".", ToString(v.tenths % 10),
          Units[v.index + 1]>>

\* A small int as digits
RECURSIVE ToDigitsN(_, _)
ToDigitsN(n, len) ==
    IF len = 0 THEN <<>> ELSE <<n % Base>> \o ToDigitsN(n \div Base, len - 1)

ToDigits(n) == ToDigitsN(n, NDigits)

(***************************************************************************)
(* Values                                                                  *)
(***************************************************************************)
None == "None"

\* None where a token string is expected
NoneStr == <<None>>

OnDemand == "on_demand"

NA == <<"N/A">>

\* A one-token string
Str(s) == <<s>>

\* dict.get(key, default)
Get(d, k, default) == IF k \in DOMAIN d THEN d[k] ELSE default

\* v or alt, for an optional identifier
Or(v, alt) == IF v = None \/ v = "" THEN alt ELSE v

\* v or alt, for an optional token string
OrStr(v, alt) == IF v = NoneStr \/ v = <<>> THEN alt ELSE v

\* Tokens of the modelled strings in Python's string order (digits sort
\* before letters, a prefix before its extensions)
TokenOrder == <<"00:00:00Z", "2024-12-31", "2025-05-01", "N/A", "None", "T">>

Rank(tok) == CHOOSE r \in 1..Len(TokenOrder) : TokenOrder[r] = tok

\* a < b for strings
RECURSIVE StrLess(_, _)
StrLess(a, b) ==
    IF b = <<>> THEN FALSE
    ELSE IF a = <<>> THEN TRUE
    ELSE IF Head(a) = Head(b) THEN StrLess(Tail(a), Tail(b))
    ELSE Rank(Head(a)) < Rank(Head(b))

\* s.split("T")[0]
RECURSIVE SplitT0(_)
SplitT0(s) ==
    IF s = <<>> \/ Head(s) = "T" THEN <<>> ELSE <<Head(s)>> \o SplitT0(Tail(s))

\* ", ".join(xs) for a list of one-token strings
RECURSIVE JoinComma(_)
JoinComma(xs) ==
    IF xs = <<>> THEN <<>>
    ELSE IF Len(xs) = 1 THEN <<xs[1]>>
    ELSE <<xs[1], ", ">> \o JoinComma(Tail(xs))

\* dict as a sequence of entries in insertion order
HasKey(d, k) == \E j \in 1..Len(d) : d[j].key = k

KeyIndex(d, k) == CHOOSE j \in 1..Len(d) : d[j].key = k

Lookup(d, k) == d[KeyIndex(d, k)]

\* d[k] = v
DictSet(d, k, v) ==
    IF HasKey(d, k) THEN [d EXCEPT ![KeyIndex(d, k)] = v] ELSE Append(d, v)

(***************************************************************************)
(* The cluster (qumulo.rest_client), as far as snap.py consumes it         *)
(***************************************************************************)
PathIds == {"f1", "f2"}

PolicyIds == {"1"}

\* get_file_attr: answers, or raises RequestError with or without
\* fs_no_such_inode_error in its text, or raises something else
FsKinds == {"ok", "fs_no_such_inode_error", "request_error", "exception"}

\* No path identifier resolved yet
Unasked == [f \in PathIds |-> "unasked"]

\* The answers the cluster may give once asked: those given stay as they are
Answers(known) ==
    {w \in [PathIds -> FsKinds] :
        \A f \in PathIds : known[f] # "unasked" => w[f] = known[f]}

\* The answers known after the path identifiers of snaps have been resolved
Asked(known, w, snaps) ==
    [f \in PathIds |->
        IF \E j \in 1..Len(snaps) : snaps[j].source_file_id = f
        THEN w[f] ELSE known[f]]

PathOf(path_id) == IF path_id = "f1" THEN "/f1" ELSE "/f2"

Date1 == <<"2024-12-31", "T", "00:00:00Z">>

Date2 == <<"2025-05-01", "T", "00:00:00Z">>

Expirations == {<<>>, NoneStr, Date1, Date2}

FewExpirations == {Date1}

SnapName(i) == "snap_" \o ToString(i)

\* The i-th entry of list_snapshots()["entries"]: with every key, a path
\* identifier among paths and an expiration among exps, or (only when the
\* empty expiration is among exps) without the optional keys policy_id and
\* expiration
Entries(i, paths, exps) ==
    {[id |-> i, name |-> SnapName(i), source_file_id |-> f, policy_id |-> p,
      expiration |-> e] : f \in paths, p \in PolicyIds \cup {None}, e \in exps}
    \cup {[id |-> i, name |-> SnapName(i), source_file_id |-> f] :
            f \in IF <<>> \in exps THEN paths ELSE {}}

RECURSIVE InventoriesOfLen(_, _, _)
InventoriesOfLen(n, paths, exps) ==
    IF n = 0 THEN {<<>>}
    ELSE {Append(inv, e) : inv \in InventoriesOfLen(n - 1, paths, exps),
                           e \in Entries(n, paths, exps)}

Inventories(paths, exps) ==
    UNION {InventoriesOfLen(n, paths, exps) : n \in 0..MaxSnaps}

\* Inventories of the whole run
RunInventories == Inventories(PathIds, FewExpirations)

\* Inventories that vary the grouping keys, and inventories that vary the
\* expirations
RowInventories ==
    Inventories(PathIds, {<<>>}) \cup Inventories({"f1"}, Expirations)

\* capacity_used_by_snapshot(id)["capacity_used_bytes"]
SnapUsage(id) ==
    LET i == CHOOSE i \in 1..(MaxSnaps + 1) : ToString(i) = id
    IN  512 * (i + 1)

\* calculate_used_capacity(ids)["bytes"]
RECURSIVE BulkUsage(_)
BulkUsage(ids) ==
    IF ids = <<>> THEN 0 ELSE SnapUsage(Head(ids)) + BulkUsage(Tail(ids))

\* Outcomes of one capacity request
SnapOutcomes == {"ok", "snapshot_not_found_error", "error"}

BulkOutcomes == {"ok", "error"}

(***************************************************************************)
(* Snapshot._get_file_path (snap.py 224-246)                               *)
(***************************************************************************)
_get_file_path(path_id, fsys) ==
    LET kind == IF path_id \in DOMAIN fsys THEN fsys[path_id] ELSE "exception"
    IN  CASE kind = "ok" ->
               [raised |-> FALSE, path |-> PathOf(path_id), error |-> FALSE]
          [] kind = "fs_no_such_inode_error" ->
               [raised |-> FALSE, path |-> "Path not found", error |-> FALSE]
          [] kind = "request_error" ->
               [raised |-> FALSE, path |-> "Unknown error", error |-> TRUE]
          [] OTHER ->
               [raised |-> TRUE, path |-> None, error |-> FALSE]

(***************************************************************************)
(* Snapshot.group_snapshots (snap.py 125-162)                              *)
(***************************************************************************)
SnapInfo(snapshot, path_id, path_str) ==
    [policy     |-> Get(snapshot, "policy_id", None),
     path_id    |-> path_id,
     path_str   |-> path_str,
     name       |-> Get(snapshot, "name", None),
     id         |-> ToString(Get(snapshot, "id", None)),
     expiration |-> Get(snapshot, "expiration", <<>>),
     size       |-> 0]

SnapPolicyInfo(snapshot, group_by, group_key, snap_info, path_str) ==
    [key         |-> group_key,
     policy_id   |-> IF group_by = "policy_id"
                     THEN Get(snapshot, "policy_id", None) ELSE None,
     path_id     |-> IF group_by = "source_file_id"
                     THEN Get(snapshot, "source_file_id", None) ELSE None,
     policy_name |-> Or(Get(snapshot, group_by, None), OnDemand),
     snapshots   |-> <<snap_info>>,
     path_str    |-> IF group_key # OnDemand THEN path_str ELSE "N/A",
     size        |-> 0]

\* group_key = snapshot.get(group_by), the fallback forgotten
GroupKey_noFallback(snapshot, group_by) == Get(snapshot, group_by, None)

\* group_key = snapshot.get(group_by) or "on_demand"
GroupKey(snapshot, group_by) == Or(Get(snapshot, group_by, None), OnDemand)

\* The loop of group_snapshots from inventory position i on.  raised: the
\* path resolution raised something that _get_file_path does not catch.
RECURSIVE GroupLoop(_, _, _, _, _, _)
GroupLoop(snaps, i, group_by, fsys, groups, errs) ==
    IF i > Len(snaps) THEN [raised |-> FALSE, groups |-> groups, errors |-> errs]
    ELSE
      LET snapshot  == snaps[i]
          group_key == GroupKey(snapshot, group_by)
          path_id   == Get(snapshot, "source_file_id", None)
          r         == _get_file_path(path_id, fsys)
          snap_info == SnapInfo(snapshot, path_id, r.path)
          errs2     == IF r.error THEN errs \cup {"path"} ELSE errs
      IN  IF r.raised
          THEN [raised |-> TRUE, groups |-> groups, errors |-> errs]
          ELSE IF ~HasKey(groups, group_key)
          THEN GroupLoop(snaps, i + 1, group_by, fsys,
                 Append(groups, SnapPolicyInfo(snapshot, group_by, group_key,
                                               snap_info, r.path)), errs2)
          ELSE GroupLoop(snaps, i + 1, group_by, fsys,
                 [groups EXCEPT ![KeyIndex(groups, group_key)].snapshots =
                     Append(@, snap_info)], errs2)

group_snapshots(snaps, group_by, fsys) ==
    GroupLoop(snaps, 1, group_by, fsys, <<>>, {})

(***************************************************************************)
(* Snapshot.calculate_size_on_demand (snap.py 176-193)                     *)
(* oc[j] is the outcome of the request for the j-th snapshot of the group. *)
(***************************************************************************)
SnapCall(snap, outcome) ==
    [op |-> "capacity_used_by_snapshot", ids |-> <<snap.id>>,
     ok |-> outcome = "ok", outcome |-> outcome, bytes |-> SnapUsage(snap.id)]

SizedSnap(snap, outcome) ==
    IF outcome = "ok" THEN [snap EXCEPT !.size = SnapUsage(snap.id)] ELSE snap

\* Without the inner try: the first fault ends the loop in the outer handler
calculate_size_on_demand_noInnerTry(snaps_on_demand, oc, res) ==
    LET n     == Len(snaps_on_demand.snapshots)
        bad   == {j \in 1..n : oc[j] # "ok"}
        stop  == IF bad = {} THEN n
                 ELSE CHOOSE j \in bad : \A k \in bad : j <= k
        sized == [snaps_on_demand EXCEPT !.snapshots =
                    [j \in 1..n |-> IF j <= stop THEN SizedSnap(@[j], oc[j])
                                    ELSE @[j]]]
    IN  [raised  |-> FALSE,
         group   |-> sized,
         results |-> IF bad = {} THEN DictSet(res, OnDemand, sized) ELSE res,
         calls   |-> [j \in 1..stop |->
                        SnapCall(snaps_on_demand.snapshots[j], oc[j])],
         errors  |-> IF bad = {} THEN {} ELSE {"on_demand"}]

\* Both handlers catch Exception: nothing leaves the method
calculate_size_on_demand(snaps_on_demand, oc, res) ==
    LET n     == Len(snaps_on_demand.snapshots)
        sized == [snaps_on_demand EXCEPT !.snapshots =
                    [j \in 1..n |-> SizedSnap(@[j], oc[j])]]
    IN  [raised  |-> FALSE,
         group   |-> sized,
         results |-> DictSet(res, OnDemand, sized),
         calls   |-> [j \in 1..n |-> SnapCall(snaps_on_demand.snapshots[j], oc[j])],
         errors  |-> IF \E j \in 1..n : oc[j] = "error"
                     THEN {"on_demand"} ELSE {}]

(***************************************************************************)
(* Snapshot.calculate_size_by_policy (snap.py 195-212)                     *)
(* bo[j] is the outcome of the bulk request for the j-th group.            *)
(***************************************************************************)
IdsList(ginfo) == [j \in 1..Len(ginfo.snapshots) |-> ginfo.snapshots[j].id]

BulkCall(ginfo, outcome) ==
    [op |-> "calculate_used_capacity", ids |-> IdsList(ginfo),
     ok |-> outcome = "ok", outcome |-> outcome,
     bytes |-> BulkUsage(IdsList(ginfo))]

SizedGroup(ginfo) == [ginfo EXCEPT !.size = BulkUsage(IdsList(ginfo))]

\* The try around the loop instead of inside it: the first fault ends it
RECURSIVE PolicyLoop_stopAtFault(_, _, _, _)
PolicyLoop_stopAtFault(groups, j, bo, acc) ==
    IF j > Len(groups) THEN acc
    ELSE IF groups[j].key = OnDemand
    THEN PolicyLoop_stopAtFault(groups, j + 1, bo, acc)
    ELSE IF bo[j] = "ok"
    THEN PolicyLoop_stopAtFault(groups, j + 1, bo,
           [groups  |-> [acc.groups EXCEPT ![j] = SizedGroup(@)],
            results |-> DictSet(acc.results, groups[j].key, SizedGroup(groups[j])),
            calls   |-> Append(acc.calls, BulkCall(groups[j], bo[j])),
            errors  |-> acc.errors])
    ELSE [groups  |-> acc.groups,
          results |-> acc.results,
          calls   |-> Append(acc.calls, BulkCall(groups[j], bo[j])),
          errors  |-> acc.errors \cup {"policy"}]

\* acc.groups are the groups as sized so far: results holds the same objects
RECURSIVE PolicyLoop(_, _, _, _)
PolicyLoop(groups, j, bo, acc) ==
    IF j > Len(groups) THEN acc
    ELSE IF groups[j].key = OnDemand THEN PolicyLoop(groups, j + 1, bo, acc)
    ELSE IF bo[j] = "ok"
    THEN PolicyLoop(groups, j + 1, bo,
           [groups  |-> [acc.groups EXCEPT ![j] = SizedGroup(@)],
            results |-> DictSet(acc.results, groups[j].key, SizedGroup(groups[j])),
            calls   |-> Append(acc.calls, BulkCall(groups[j], bo[j])),
            errors  |-> acc.errors])
    ELSE PolicyLoop(groups, j + 1, bo,
           [groups  |-> acc.groups,
            results |-> acc.results,
            calls   |-> Append(acc.calls, BulkCall(groups[j], bo[j])),
            errors  |-> acc.errors \cup {"policy"}])

calculate_size_by_policy(groups, bo, res) ==
    PolicyLoop(groups, 1, bo,
               [groups |-> groups, results |-> res, calls |-> <<>>, errors |-> {}])

(***************************************************************************)
(* Snapshot.calculate_snapshot_sizes (snap.py 164-173)                     *)
(***************************************************************************)
calculate_snapshot_sizes(groups, oc, bo, res) ==
    LET od == IF HasKey(groups, OnDemand)
              THEN calculate_size_on_demand(Lookup(groups, OnDemand), oc, res)
              ELSE [raised |-> FALSE, group |-> None, results |-> res,
                    calls |-> <<>>, errors |-> {}]
        g1 == IF HasKey(groups, OnDemand)
              THEN [groups EXCEPT ![KeyIndex(groups, OnDemand)] = od.group]
              ELSE groups
        bp == calculate_size_by_policy(g1, bo, od.results)
    IN  IF od.raised
        THEN [raised |-> TRUE, groups |-> g1, results |-> od.results,
              calls |-> od.calls, errors |-> od.errors]
        ELSE [raised  |-> FALSE,
              groups  |-> bp.groups,
              results |-> bp.results,
              calls   |-> od.calls \o bp.calls,
              errors  |-> od.errors \cup bp.errors]

(***************************************************************************)
(* Snapshot._get_headers (snap.py 248-262)                                 *)
(***************************************************************************)
_get_headers(usage) ==
    IF usage = "policy_id"
    THEN <<Str("Policy ID"), Str("Path"), Str("Snapshot Name(s)"), Str("Size"),
           Str("Snapshot ID(s)"), Str("Expiration Dates")>>
    ELSE <<Str("Path ID"), Str("Path"), Str("Snapshot Name"), Str("Size"),
           Str("Snapshot ID(s)")>>

(***************************************************************************)
(* Snapshot._prepare_rows (snap.py 264-309)                                *)
(***************************************************************************)
OnDemandRow(snap, path) ==
    <<Str("on_demand"), Str(path), Str(snap.name),
      format_bytes(ToDigits(snap.size)), Str(snap.id),
      OrStr(snap.expiration, NA)>>

\* The rows of the on-demand snapshots from position j on
RECURSIVE OnDemandRows(_, _, _, _)
OnDemandRows(snaps, j, fsys, acc) ==
    IF j > Len(snaps) THEN acc
    ELSE LET r == _get_file_path(snaps[j].path_id, fsys)
         IN  IF r.raised
             THEN [raised |-> TRUE, rows |-> acc.rows, errors |-> acc.errors]
             ELSE OnDemandRows(snaps, j + 1, fsys,
                    [raised |-> FALSE,
                     rows   |-> Append(acc.rows, OnDemandRow(snaps[j], r.path)),
                     errors |-> IF r.error THEN acc.errors \cup {"path"}
                                ELSE acc.errors])

\* snap.expiration for snap in group_info.snapshots if snap.expiration != "N/A"
Candidates(group_info) ==
    SelectSeq([j \in 1..Len(group_info.snapshots) |->
                  group_info.snapshots[j].expiration], LAMBDA e : e # NA)

\* min(xs, default="N/A"): the first smallest element
RECURSIVE MinStr(_, _)
MinStr(xs, best) ==
    IF xs = <<>> THEN best
    ELSE MinStr(Tail(xs), IF StrLess(Head(xs), best) THEN Head(xs) ELSE best)

EarliestExpiration(group_info) ==
    LET c == Candidates(group_info)
    IN  IF c = <<>> THEN NA ELSE MinStr(Tail(c), Head(c))

\* min() cannot order None against a string or another None, and None has
\* no split(): either way the exception leaves _prepare_rows
ExpirationRaises(group_info) ==
    \E j \in 1..Len(Candidates(group_info)) : Candidates(group_info)[j] = NoneStr

\* The path column filled with the group's path_id
SummaryRow_pathId(group_info) ==
    <<Str(group_info.key),
      Str(group_info.path_id),
      JoinComma([j \in 1..Len(group_info.snapshots) |-> group_info.snapshots[j].name]),
      format_bytes(ToDigits(group_info.size)),
      JoinComma(IdsList(group_info)),
      SplitT0(EarliestExpiration(group_info))>>

SummaryRow(group_info) ==
    <<Str(group_info.key),
      Str(group_info.path_str),
      JoinComma([j \in 1..Len(group_info.snapshots) |-> group_info.snapshots[j].name]),
      format_bytes(ToDigits(group_info.size)),
      JoinComma(IdsList(group_info)),
      SplitT0(EarliestExpiration(group_info))>>

RECURSIVE SummaryRows(_, _, _)
SummaryRows(res, j, acc) ==
    IF j > Len(res) \/ acc.raised THEN acc
    ELSE IF res[j].key = OnDemand THEN SummaryRows(res, j + 1, acc)
    ELSE IF ExpirationRaises(res[j])
    THEN [raised |-> TRUE, rows |-> acc.rows, errors |-> acc.errors]
    ELSE SummaryRows(res, j + 1,
           [raised |-> FALSE, rows |-> Append(acc.rows, SummaryRow(res[j])),
            errors |-> acc.errors])

\* The grouped rows collected before the on-demand rows
_prepare_rows_groupedFirst(res, fsys) ==
    LET start == [raised |-> FALSE, rows |-> <<>>, errors |-> {}]
        sm    == SummaryRows(res, 1, start)
    IN  IF HasKey(res, OnDemand) /\ ~sm.raised
        THEN OnDemandRows(Lookup(res, OnDemand).snapshots, 1, fsys, sm)
        ELSE sm

_prepare_rows(res, fsys) ==
    LET start == [raised |-> FALSE, rows |-> <<>>, errors |-> {}]
        od    == IF HasKey(res, OnDemand)
                 THEN OnDemandRows(Lookup(res, OnDemand).snapshots, 1, fsys, start)
                 ELSE start
    IN  SummaryRows(res, 1, od)

(***************************************************************************)
(* Snapshot._write_csv (snap.py 311-321): csv.writer with QUOTE_ALL        *)
(***************************************************************************)
CsvLine(row) == [f \in 1..Len(row) |-> <<"\"">> \o row[f] \o <<"\"">>]

\* open(file_name, "w"): the file is truncated first
_write_csv_truncating(content, headers, rows) ==
    <<CsvLine(headers)>> \o [j \in 1..Len(rows) |-> CsvLine(rows[j])]

_write_csv(content, headers, rows) ==
    content \o <<CsvLine(headers)>> \o [j \in 1..Len(rows) |-> CsvLine(rows[j])]

(***************************************************************************)
(* Snapshot._display_report (snap.py 323-340)                              *)
(***************************************************************************)
\* Number of characters of a token of the name and id columns
TokLen(tok) ==
    CASE tok = ", " -> 2
      [] tok \in {ToString(i) : i \in 1..9} -> 1
      [] OTHER -> 6

RECURSIVE StrLen(_)
StrLen(s) == IF s = <<>> THEN 0 ELSE TokLen(Head(s)) + StrLen(Tail(s))

\* s[:15] + "...", the cut written symbolically
Truncate(s) == IF StrLen(s) > 15 THEN <<"[:15]">> \o s \o <<"...">> ELSE s

\* f"{col:<20}" for every column, joined
ConsoleLine(row) == [f \in 1..Len(row) |-> row[f] \o <<"<20">>]

TruncatedRow(row) ==
    [f \in 1..Len(row) |->
        IF f = 3 \/ (f = 5 /\ Len(row) > 4) THEN Truncate(row[f]) ELSE row[f]]

DashLine == <<Str("-*100")>>

_display_report(out, headers, rows) ==
    out \o <<ConsoleLine(headers), DashLine>>
        \o [j \in 1..Len(rows) |-> ConsoleLine(TruncatedRow(rows[j]))]

(***************************************************************************)
(* Snapshot.generate_snapshot_usage_report (snap.py 342-355)               *)
(***************************************************************************)
\* if file_name: self._write_csv(...) else: self._display_report(...), unless
\* _prepare_rows raised (p is its outcome)
EmitReport(headers, p, file_name, content, out) ==
    [raised  |-> p.raised,
     errors  |-> p.errors,
     rows    |-> p.rows,
     file    |-> IF ~p.raised /\ file_name # None /\ file_name # ""
                 THEN _write_csv(content, headers, p.rows) ELSE content,
     console |-> IF ~p.raised /\ (file_name = None \/ file_name = "")
                 THEN _display_report(out, headers, p.rows) ELSE out]

\* headers and rows are each computed once and then handed on
generate_snapshot_usage_report(usage, file_name, res, fsys, content, out) ==
    CHOOSE r \in {EmitReport(headers, p, file_name, content, out) :
                     headers \in {_get_headers(usage)},
                     p \in {_prepare_rows(res, fsys)}} : TRUE

(***************************************************************************)
(* main (snap.py 358-413)                                                  *)
(***************************************************************************)
Groupings == <<"policy_id", "source_file_id">>

Actions == {"1", "2", "3"}

OldLine == CsvLine(<<Str("old")>>)

Init ==
    /\ pc = "login"
    /\ args \in [action : Actions, filename : {None, "report.csv"}]
    /\ fs = Unasked
    /\ snapshots = <<>>
    /\ grp = 1
    /\ grouped = <<>>
    /\ results = <<>>
    /\ file = <<OldLine>>
    /\ console = <<>>
    /\ reports = <<>>
    /\ calls = <<>>
    /\ errors = {}
    /\ fmt_in = <<>>
    /\ fmt_out = <<>>

\* Client.__init__ / login (snap.py 75-105)
Login ==
    /\ pc = "login"
    /\ \E ok \in BOOLEAN :
          IF ok THEN pc' = "snapshot" /\ errors' = errors
          ELSE pc' = "exit1" /\ errors' = errors \cup {"login"}
    /\ UNCHANGED <<args, fs, snapshots, grp, grouped, results, file, console,
                   reports, calls, fmt_in, fmt_out>>

\* Snapshot.__init__ with get_snapshots (snap.py 109-123)
GetSnapshots ==
    /\ pc = "snapshot"
    /\ \/ \E inv \in RunInventories :
             snapshots' = inv /\ errors' = errors
       \/ snapshots' = <<>> /\ errors' = errors \cup {"fetch"}
    /\ results' = <<>>
    /\ pc' = "total"
    /\ UNCHANGED <<args, fs, grp, grouped, file, console, reports, calls, fmt_in,
                   fmt_out>>

\* The log line of snap.py 399-401; its remote call is not guarded
TotalCapacity ==
    /\ pc = "total"
    /\ \E ok \in BOOLEAN : pc' = IF ok THEN "action" ELSE "crashed_total"
    /\ UNCHANGED <<args, fs, snapshots, grp, grouped, results, file, console,
                   reports, calls, errors, fmt_in, fmt_out>>

\* if args.action == "1" ... elif "2" ... else (snap.py 402-413)
Dispatch ==
    /\ pc = "action"
    /\ pc' = IF args.action = "1" THEN "group" ELSE "done"
    /\ errors' = IF args.action \in {"1", "2"} THEN errors
                 ELSE errors \cup {"action"}
    /\ UNCHANGED <<args, fs, snapshots, grp, grouped, results, file, console,
                   reports, calls, fmt_in, fmt_out>>

\* The pass without snapshot.results = {}: results keeps the previous pass
MainGroup_keepResults ==
    /\ pc = "group"
    /\ \E w \in Answers(fs) :
          \E g \in {group_snapshots(snapshots, Groupings[grp], w)} :
              /\ fs' = Asked(fs, w, snapshots)
              /\ results' = results
              /\ grouped' = IF g.raised THEN grouped ELSE g.groups
              /\ errors' = errors \cup g.errors
              /\ pc' = IF g.raised THEN "crashed_group" ELSE "size"
    /\ UNCHANGED <<args, snapshots, grp, file, console, reports, calls, fmt_in,
                   fmt_out>>

\* snapshot.results = {}; grouped_snaps = snapshot.group_snapshots(grp)
MainGroup ==
    /\ pc = "group"
    /\ \E w \in Answers(fs) :
          LET g == group_snapshots(snapshots, Groupings[grp], w)
          IN  /\ fs' = Asked(fs, w, snapshots)
              /\ results' = <<>>
              /\ grouped' = IF g.raised THEN grouped ELSE g.groups
              /\ errors' = errors \cup g.errors
              /\ pc' = IF g.raised THEN "crashed_group" ELSE "size"
    /\ UNCHANGED <<args, snapshots, grp, file, console, reports, calls, fmt_in,
                   fmt_out>>

OnDemandCount(groups) ==
    IF HasKey(groups, OnDemand) THEN Len(Lookup(groups, OnDemand).snapshots) ELSE 0

\* The requests cs, marked as sent in pass number n of main's loop
InPass(cs, n) ==
    [j \in 1..Len(cs) |->
        [op |-> cs[j].op, ids |-> cs[j].ids, ok |-> cs[j].ok,
         outcome |-> cs[j].outcome, bytes |-> cs[j].bytes, pass |-> n]]

\* Number of failed requests among cs
Faults(cs) == Cardinality({j \in 1..Len(cs) : ~cs[j].ok})

\* snapshot.calculate_snapshot_sizes(grouped_snaps)
MainSizes ==
    /\ pc = "size"
    /\ \E oc \in [1..OnDemandCount(grouped) -> SnapOutcomes],
          bo \in [1..Len(grouped) -> BulkOutcomes] :
          LET c == calculate_snapshot_sizes(grouped, oc, bo, results)
          IN  /\ Faults(calls \o c.calls) <= MaxFaults
              /\ grouped' = c.groups
              /\ results' = c.results
              /\ calls' = calls \o InPass(c.calls, grp)
              /\ errors' = errors \cup c.errors
              /\ pc' = IF c.raised THEN "crashed_size" ELSE "report"
    /\ UNCHANGED <<args, fs, snapshots, grp, file, console, reports, fmt_in, fmt_out>>

\* snapshot.generate_snapshot_usage_report(usage=grp, file_name=args.filename)
MainReport ==
    /\ pc = "report"
    /\ \E r \in {generate_snapshot_usage_report(Groupings[grp], args.filename,
                                                 results, fs, file, console)} :
           /\ file' = r.file
           /\ console' = r.console
           /\ reports' = IF r.raised THEN reports
                         ELSE Append(reports, [usage |-> Groupings[grp],
                                               rows  |-> r.rows])
           /\ errors' = errors \cup r.errors
           /\ pc' = IF r.raised THEN "crashed_report"
                    ELSE IF grp < Len(Groupings) THEN "group" ELSE "done"
           /\ grp' = IF ~r.raised /\ grp < Len(Groupings) THEN grp + 1 ELSE grp
    /\ UNCHANGED <<args, fs, snapshots, grouped, results, calls, fmt_in, fmt_out>>

Next ==
    \/ Login
    \/ GetSnapshots
    \/ TotalCapacity
    \/ Dispatch
    \/ MainGroup
    \/ MainSizes
    \/ MainReport

Spec == Init /\ [][Next]_vars

(***************************************************************************)
(* The report loop of main over every shape of inventory entry, from the   *)
(* state in which the session and the Snapshot object exist, the cluster   *)
(* resolves every path and the report goes to the file.                    *)
(***************************************************************************)
InitRows ==
    /\ pc = "group"
    /\ args = [action |-> "1", filename |-> "report.csv"]
    /\ fs = [f \in PathIds |-> "ok"]
    /\ snapshots \in RowInventories
    /\ grp = 1
    /\ grouped = <<>>
    /\ results = <<>>
    /\ file = <<OldLine>>
    /\ console = <<>>
    /\ reports = <<>>
    /\ calls = <<>>
    /\ errors = {}
    /\ fmt_in = <<>>
    /\ fmt_out = <<>>

NextRows ==
    \/ MainGroup
    \/ MainSizes
    \/ MainReport

SpecRows == InitRows /\ [][NextRows]_vars

(***************************************************************************)
(* format_bytes applied to inputs around every unit boundary               *)
(***************************************************************************)
LowDigits == {0, 1, 256, 512, 768, 959, 960, 1023}

HighDigits == {0, 1, 1023}

FmtInputs ==
    {<<d>> \o hs : d \in LowDigits, hs \in [1..(NDigits - 1) -> HighDigits]}

NotRun == <<>>

FmtInit ==
    /\ fmt_in \in FmtInputs
    /\ fmt_out = NotRun
    /\ pc = "format_bytes"
    /\ args = [action |-> "2", filename |-> None]
    /\ fs = [f \in PathIds |-> "ok"]
    /\ snapshots = <<>>
    /\ grp = 1
    /\ grouped = <<>>
    /\ results = <<>>
    /\ file = <<>>
    /\ console = <<>>
    /\ reports = <<>>
    /\ calls = <<>>
    /\ errors = {}

FormatBytes ==
    /\ pc = "format_bytes"
    /\ fmt_out' = format_bytes(fmt_in)
    /\ pc' = "formatted"
    /\ UNCHANGED <<args, fs, snapshots, grp, grouped, results, file, console,
                   reports, calls, errors, fmt_in>>

FmtNext == FormatBytes

SpecFmt == FmtInit /\ [][FmtNext]_vars

(***************************************************************************)
(* Properties of grouping and of the report rows                           *)
(***************************************************************************)
\* The group a snapshot belongs to under a grouping key
ExpectedKey(snapshot, key) ==
    IF key \in DOMAIN snapshot /\ snapshot[key] # None
    THEN snapshot[key] ELSE OnDemand

\* Where the snapshot of identifier id occurs in the groups
Places(groups, id) ==
    UNION {{<<g, j>> : j \in {k \in 1..Len(groups[g].snapshots) :
                                  groups[g].snapshots[k].id = id}} :
           g \in 1..Len(groups)}

RECURSIVE TotalMembers(_)
TotalMembers(groups) ==
    IF groups = <<>> THEN 0
    ELSE Len(Head(groups).snapshots) + TotalMembers(Tail(groups))

\* grouped holds the result of group_snapshots for the current grouping key
Grouped == pc \in {"size", "report"}

\* C1: group_snapshots partitions the inventory: every snapshot is in exactly
\* one group, once, namely the group of its value for the key, or "on_demand"
\* when that value is null or absent; the groups hold nothing else.
C1_Partition ==
    Grouped =>
        /\ \A i \in 1..Len(snapshots) :
              LET at == Places(grouped, ToString(snapshots[i].id))
              IN  /\ Cardinality(at) = 1
                  /\ \A gj \in at :
                        grouped[gj[1]].key =
                            ExpectedKey(snapshots[i], Groupings[grp])
        /\ TotalMembers(grouped) = Len(snapshots)
        /\ \A g, h \in 1..Len(grouped) :
              grouped[g].key = grouped[h].key => g = h

\* C1 witness: an entry without policy_id grouped under "on_demand" beside a
\* policy group
C1_Witness ==
    /\ pc = "size"
    /\ grp = 1
    /\ Len(grouped) = 2
    /\ \E i \in 1..Len(snapshots) :
          /\ "policy_id" \notin DOMAIN snapshots[i]
          /\ \E gj \in Places(grouped, ToString(snapshots[i].id)) :
                grouped[gj[1]].key = OnDemand

\* The last report was generated from the present results
JustReported ==
    /\ Len(reports) > 0
    /\ pc = "done" \/ (pc = "group" /\ grp = Len(reports) + 1)

LastReport == reports[Len(reports)]

OnDemandSnaps ==
    IF HasKey(results, OnDemand) THEN Lookup(results, OnDemand).snapshots
    ELSE <<>>

OtherGroups == SelectSeq(results, LAMBDA g : g.key # OnDemand)

\* The inventory entries of group k under the grouping key, in inventory order
Members(k, key) == SelectSeq(snapshots, LAMBDA e : ExpectedKey(e, key) = k)

\* field is xs joined by ", "
IsJoin(field, xs) ==
    /\ Len(field) = IF xs = <<>> THEN 0 ELSE 2 * Len(xs) - 1
    /\ \A j \in 1..Len(xs) :
          /\ field[2 * j - 1] = xs[j]
          /\ j < Len(xs) => field[2 * j] = ", "

Known(e) == e # <<>> /\ e # NoneStr

KnownExpirations(group_info) ==
    SelectSeq([j \in 1..Len(group_info.snapshots) |->
                  group_info.snapshots[j].expiration], Known)

\* e is the date portion of the earliest of the expirations es
IsEarliestDate(e, es) ==
    \E j \in 1..Len(es) :
        /\ \A k \in 1..Len(es) : ~StrLess(es[k], es[j])
        /\ e = <<es[j][1]>>

\* C4: the expiration field of a summary row is the date portion of the
\* earliest known expiration of the group's snapshots, and "N/A" when no
\* snapshot of the group has a known expiration.
C4_EarliestKnownExpiration ==
    JustReported =>
        \A j \in 1..Len(OtherGroups) :
            LET row   == LastReport.rows[Len(OnDemandSnaps) + j]
                known == KnownExpirations(OtherGroups[j])
            IN  IF known = <<>> THEN row[6] = NA
                ELSE IsEarliestDate(row[6], known)

(***************************************************************************)
(* Properties of the size calculation                                      *)
(***************************************************************************)
Crashed ==
    pc \in {"crashed_total", "crashed_group", "crashed_size", "crashed_report"}

\* The capacity requests of kind op sent in the current pass
Requests(op) == SelectSeq(calls, LAMBDA c : c.pass = grp /\ c.op = op)

GroupedOthers == SelectSeq(grouped, LAMBDA g : g.key # OnDemand)

ResultKeys == {results[j].key : j \in 1..Len(results)}

\* C2: after calculate_snapshot_sizes from an empty results map, one bulk
\* request was made per policy or path group, over exactly the ids of the
\* group's snapshots; the group is in results if and only if its request
\* succeeded, and then with the returned figure as its size; a failed request
\* does not keep the later groups from being sized.
C2_BulkSizes ==
    pc = "report" =>
        LET bulk == Requests("calculate_used_capacity")
            og   == GroupedOthers
        IN  /\ Len(bulk) = Len(og)
            /\ \A j \in 1..Len(og) :
                  /\ bulk[j].ids =
                        [k \in 1..Len(og[j].snapshots) |-> og[j].snapshots[k].id]
                  /\ bulk[j].ok <=> og[j].key \in ResultKeys
                  /\ bulk[j].ok =>
                        Lookup(results, og[j].key).size = bulk[j].bytes
            /\ ResultKeys \subseteq {og[j].key : j \in 1..Len(og)} \cup {OnDemand}

\* C2 witness: the request of the first of two groups failed and the second
\* group is sized and in results
C2_Witness ==
    /\ pc = "report"
    /\ Len(GroupedOthers) = 2
    /\ Len(Requests("calculate_used_capacity")) = 2
    /\ ~Requests("calculate_used_capacity")[1].ok
    /\ GroupedOthers[2].key \in ResultKeys
    /\ Lookup(results, GroupedOthers[2].key).size > 0

\* C3: calculate_size_on_demand does not raise; every on-demand snapshot is
\* queried by its own id; one whose request failed keeps size 0, one whose
\* request succeeded has the returned size; "on_demand" is in results with
\* all the snapshots of the inventory that have no policy.
C3_OnDemandSizes ==
    /\ pc # "crashed_size"
    /\ (pc = "report" /\ HasKey(grouped, OnDemand)) =>
          LET od == Lookup(grouped, OnDemand).snapshots
              rq == Requests("capacity_used_by_snapshot")
              m  == Members(OnDemand, Groupings[grp])
          IN  /\ Len(rq) = Len(od)
              /\ \A j \in 1..Len(od) :
                    /\ rq[j].ids = <<od[j].id>>
                    /\ od[j].size = IF rq[j].ok THEN rq[j].bytes ELSE 0
              /\ HasKey(results, OnDemand)
              /\ Lookup(results, OnDemand).snapshots = od
              /\ [j \in 1..Len(od) |-> od[j].id] =
                    [j \in 1..Len(m) |-> ToString(m[j].id)]

\* C3 witness: the request of the first of two on-demand snapshots failed
\* with "not found", the second is sized, both are in results
C3_Witness ==
    /\ pc = "report"
    /\ HasKey(results, OnDemand)
    /\ Len(Lookup(results, OnDemand).snapshots) = 2
    /\ Requests("capacity_used_by_snapshot")[1].outcome = "snapshot_not_found_error"
    /\ Lookup(results, OnDemand).snapshots[1].size = 0
    /\ Lookup(results, OnDemand).snapshots[2].size > 0

(***************************************************************************)
(* Properties of the run                                                   *)
(***************************************************************************)
\* C5: once the session exists the run is not ended by a fault of a remote
\* call: no exception leaves main, and with action "1" a run that has ended
\* has emitted both reports.
C5_OnlyLoginEndsTheRun ==
    /\ ~Crashed
    /\ (pc = "done" /\ args.action = "1") =>
          [j \in 1..Len(reports) |-> reports[j].usage] = Groupings

\* row carries the snapshot of identifier id
Carries(row, id) == \E k \in 1..Len(row[5]) : row[5][k] = id

BothReports == pc = "done" /\ Len(reports) = 2

SamePath(id) ==
    \A j \in 1..Len(reports[1].rows), k \in 1..Len(reports[2].rows) :
        (Carries(reports[1].rows[j], id) /\ Carries(reports[2].rows[k], id))
            => reports[1].rows[j][2] = reports[2].rows[k][2]

PathOfItsPolicy(i) ==
    LET m == Members(ExpectedKey(snapshots[i], "policy_id"), "policy_id")
    IN  m[1].source_file_id = snapshots[i].source_file_id

Block(report) ==
    <<CsvLine(_get_headers(report.usage))>>
        \o [j \in 1..Len(report.rows) |-> CsvLine(report.rows[j])]

RECURSIVE Blocks(_)
Blocks(rs) == IF rs = <<>> THEN <<>> ELSE Block(Head(rs)) \o Blocks(Tail(rs))

HeadersOnly ==
    IF args.filename # None
    THEN file = <<OldLine, CsvLine(_get_headers("policy_id")),
                  CsvLine(_get_headers("source_file_id"))>>
    ELSE console = <<ConsoleLine(_get_headers("policy_id")), DashLine,
                     ConsoleLine(_get_headers("source_file_id")), DashLine>>

\* C8: when the listing fails the inventory is empty and the run continues:
\* no groups, no capacity request, empty results, and with action "1" both
\* reports are emitted with their header and no data rows.
C8_ListingFailure ==
    "fetch" \in errors =>
        /\ snapshots = <<>> /\ grouped = <<>> /\ results = <<>> /\ calls = <<>>
        /\ ~Crashed
        /\ (pc = "done" /\ args.action = "1") => HeadersOnly

\* C9: with a filename every report is appended to the file: the file is its
\* content before the run, then for each report generated so far, in order,
\* the header row and the data rows; a finished run with action "1" has
\* added the policy_id block and then the source_file_id block.
C9_Appends ==
    /\ file = IF args.filename # None THEN <<OldLine>> \o Blocks(reports)
              ELSE <<OldLine>>
    /\ (pc = "done" /\ args.action = "1") =>
          [j \in 1..Len(reports) |-> reports[j].usage] = Groupings

\* C9 witness: the run has ended and the file holds its old line and two
\* blocks with data rows
C9_Witness ==
    /\ pc = "done"
    /\ args.filename # None
    /\ Len(reports) = 2
    /\ Len(reports[1].rows) >= 1
    /\ Len(reports[2].rows) >= 1
    /\ Len(file) = 3 + Len(reports[1].rows) + Len(reports[2].rows)

(***************************************************************************)
(* Properties of format_bytes                                              *)
(***************************************************************************)
\* n >= 1024^i when i > 0, and n < 1024^(i+1) when i < 6
UnitRule(ds, i) ==
    /\ i > 0 => \E j \in (i + 1)..Len(ds) : ds[j] # 0
    /\ i < 6 => \A j \in (i + 2)..Len(ds) : ds[j] = 0

\* 2^60 - 64 <= n < 2^60: int -> float rounds these up to 2^60
JustBelowEiB(ds) ==
    /\ ds[1] >= 960
    /\ \A j \in 2..6 : ds[j] = 1023
    /\ \A j \in 7..Len(ds) : ds[j] = 0

\* n < 2^21, small enough for 20 * n to be computed directly
SmallValue(ds) == ds[3] <= 1 /\ \A j \in 4..Len(ds) : ds[j] = 0

ValueOf(ds) == ds[1] + Base * ds[2] + Base * Base * ds[3]

RECURSIVE Pow1024(_)
Pow1024(i) == IF i = 0 THEN 1 ELSE Base * Pow1024(i - 1)

Abs(x) == IF x < 0 THEN -x ELSE x

\* out is t tenths of the unit of index i
Renders(out, t, i) ==
    out = <<ToString(t \div 10), ".", ToString(t % 10), Units[i + 1]>>

\* out is n / 1024^i to the nearest tenth, the even one of two nearest
NearestTenth(out, n, i) ==
    \E t \in {(10 * n) \div Pow1024(i), (10 * n) \div Pow1024(i) + 1} :
        /\ Renders(out, t, i)
        /\ 2 * Abs(10 * n - t * Pow1024(i)) <= Pow1024(i)
        /\ 2 * Abs(10 * n - t * Pow1024(i)) = Pow1024(i) => t % 2 = 0

\* C10 as stated: for every n the unit is the one of index i with
\* n >= 1024^i (i > 0) and n < 1024^(i+1) (i < 6).
C10_UnitForEveryN ==
    pc = "formatted" =>
        \E i \in 0..6 : UnitRule(fmt_in, i) /\ fmt_out[4] = Units[i + 1]

\* C10 amended: the unit is the one of index i with n >= 1024^i (i > 0) and
\* n < 1024^(i+1) (i < 6) for every n outside 2^60 - 64 .. 2^60 - 1, where
\* the result is "1.0EiB"; below 2^21 the number rendered is n / 1024^i to the
\* nearest tenth; 0 gives "0.0B", 1024 "1.0KiB" and 1536 "1.5KiB".
C10_FormatBytes ==
    pc = "formatted" =>
        /\ ~JustBelowEiB(fmt_in) =>
              \E i \in 0..6 : UnitRule(fmt_in, i) /\ fmt_out[4] = Units[i + 1]
        /\ JustBelowEiB(fmt_in) => fmt_out = <<"1", ".", "0", "EiB">>
        /\ SmallValue(fmt_in) =>
              \E i \in 0..6 : /\ UnitRule(fmt_in, i)
                              /\ NearestTenth(fmt_out, ValueOf(fmt_in), i)
        /\ fmt_in = ToDigits(0) => fmt_out = <<"0", ".", "0", "B">>
        /\ fmt_in = ToDigits(1024) => fmt_out = <<"1", ".", "0", "KiB">>
        /\ fmt_in = ToDigits(1536) => fmt_out = <<"1", ".", "5", "KiB">>

\* C10 witness: 1536 bytes formatted as "1.5KiB"
C10_Witness ==
    /\ pc = "formatted"
    /\ fmt_in = ToDigits(1536)
    /\ fmt_out = <<"1", ".", "5", "KiB">>

(***************************************************************************)
(* Properties of path resolution during grouping                           *)
(***************************************************************************)
\* The display path of path identifier f when the cluster answers with kind
DisplayPath(f, kind) ==
    CASE kind = "ok" -> PathOf(f)
      [] kind = "fs_no_such_inode_error" -> "Path not found"
      [] OTHER -> "Unknown error"

\* C11: group_snapshots never aborts because a path cannot be resolved: every
\* snapshot of the inventory is grouped, once, with the resolved path when the
\* resolution succeeded, "Path not found" when it failed with a missing
\* inode, and "Unknown error" when it failed in any other way.
C11_PathFaultsNeverAbort ==
    /\ pc # "crashed_group"
    /\ Grouped =>
          \A i \in 1..Len(snapshots) :
              LET at == Places(grouped, ToString(snapshots[i].id))
                  f  == snapshots[i].source_file_id
              IN  /\ Cardinality(at) = 1
                  /\ \A gj \in at :
                        grouped[gj[1]].snapshots[gj[2]].path_str =
                            DisplayPath(f, fs[f])

(***************************************************************************)
(* Properties of the results map across the two passes                     *)
(***************************************************************************)
\* The keys of the groups that grouping the inventory by key builds
KeysOf(key) == {ExpectedKey(snapshots[i], key) : i \in 1..Len(snapshots)}

\* How many rows of the report carry the snapshot of identifier id
RowsCarrying(report, id) ==
    Cardinality({j \in 1..Len(report.rows) : Carries(report.rows[j], id)})

\* C12: results is empty when a pass starts sizing, holds only groups of the
\* current grouping when the pass reports, and every row of the
\* source_file_id report is the row of a group of the source_file_id
\* grouping: none is labelled with a policy or with "on_demand" from the
\* policy_id pass, and no snapshot is carried by two rows.
C12_ResultsPerPass ==
    /\ pc = "size" => results = <<>>
    /\ pc = "report" =>
          \A j \in 1..Len(results) :
              \E g \in 1..Len(grouped) : results[j] = grouped[g]
    /\ (Len(reports) = 2 /\ pc = "done") =>
          /\ reports[2].usage = "source_file_id"
          /\ \A j \in 1..Len(reports[2].rows) :
                \E k \in KeysOf("source_file_id") : reports[2].rows[j][1] = <<k>>
          /\ \A i \in 1..Len(snapshots) :
                RowsCarrying(reports[2], ToString(snapshots[i].id)) <= 1

\* C12 witness: the policy_id report had an "on_demand" row and a policy row,
\* and the source_file_id report that followed has rows
C12_Witness ==
    /\ pc = "done"
    /\ Len(reports) = 2
    /\ \E j, k \in 1..Len(reports[1].rows) :
          /\ reports[1].rows[j][1] = <<OnDemand>>
          /\ reports[1].rows[k][1] = <<"1">>
    /\ Len(reports[2].rows) = 2
    /\ \A j \in 1..2 : reports[2].rows[j][1] \in {<<f>> : f \in PathIds}

(***************************************************************************)
(* Properties of the shape of a report                                     *)
(***************************************************************************)
\* C13: every data row of a report has exactly as many fields as the header
\* row of the report's grouping key, in the policy_id report and in the
\* source_file_id report.
C13_RowsMatchHeader ==
    \A r \in 1..Len(reports) :
        \A j \in 1..Len(reports[r].rows) :
            Len(reports[r].rows[j]) = Len(_get_headers(reports[r].usage))

====
